---- MODULE Spec2Model ----
(***************************************************************************)
(* corruptabledb::Database: a wrapper around a key-value store that blocks *)
(* further calls at the first sign of corruption.                          *)
(*                                                                         *)
(* The wrapper holds an inner store (db), an atomic flag (corrupted) and a *)
(* string behind a read-write lock (corrupted_error).  Every handle made   *)
(* by Clone shares the flag and the string.  Callers are concurrent tasks; *)
(* a task is interleaved with the others at each .await of a handler.      *)
(***************************************************************************)
EXTENDS Integers, FiniteSets, Sequences, TLC

\* ---- bounds of the model ------------------------------------------------
NumKeys == 2    \* distinct keys
NumVals == 1    \* distinct values
MaxOps == 3     \* operations started in one behaviour

\* two concurrent callers share the decorator: every race of the handlers
\* is a race between a pair of calls
Procs == {1, 2}
Keys == 1..NumKeys
Vals == 1..NumVals
\* byte slices handed to the iterator factories; 0 is the empty slice &[]
Bytes == 0..1

VARIABLES
    corrupted,        \* Arc<AtomicBool>
    corrupted_error,  \* Arc<RwLock<String>>: the string
    writer,           \* Arc<RwLock<String>>: the caller holding the write guard, 0 when none
    db,               \* contents of the inner store: key -> value, 0 when absent
    pc,               \* where each caller is in its handler
    op,               \* the handler each caller runs
    arg,              \* the arguments of the call, <<0, 0>> once the call has used them
    err,              \* the local `err` of the handler, as the classifier handed it back
    raised,           \* history: the error the inner store returned to this call
    res,              \* the value the handler returned
    saw,              \* history: what the gate check of the current call read from the flag
    path,             \* history: the branch the handler returned from
    calls,            \* history: inner-store calls made by the current invocation
    classified,       \* history: classifier calls made by the current invocation
    firstMsg,         \* history: the first string assigned to corrupted_error
    seen,             \* history: messages of the errors classified as corruption
    lateCall,         \* history: the inner store was called while corrupted was true
    settled,          \* history: the call started after every detection so far had returned
    started,          \* number of operations started so far
    sequential        \* TRUE when operations are issued one after another

vars == <<corrupted, corrupted_error, writer, db, pc, op, arg, err, raised, res, saw,
          path, calls, classified, firstMsg, seen, lateCall, settled, started, sequential>>

\* ---- errors (io::Error) ---------------------------------------------------
NoMsg == ""
NotFoundErr == [kind |-> "NotFound", text |-> "not found"]
ClosedErr == [kind |-> "Other", text |-> "database closed"]
RawErr1 == [kind |-> "UnexpectedEof", text |-> "raw1"]
\* a not-found-flavoured error that the classifier classifies as corruption
RawErr2 == [kind |-> "NotFound", text |-> "raw2"]
\* an error that is neither corruption nor not-found and that the classifier
\* hands back in its normalized form
TimeoutErr == [kind |-> "TimedOut", text |-> "timed out"]
InnerErrors == {NotFoundErr, ClosedErr, TimeoutErr, RawErr1, RawErr2}
NoErr == [kind |-> "", text |-> NoMsg]

\* errors::from_string: an io::Error of kind Other carrying the string
from_string(s) == [kind |-> "Other", text |-> s]

\* io::Error::to_string
to_string(e) == e.text

\* errors::is_not_found
is_not_found(e) == e.kind = "NotFound"

\* The normalized error the classifier hands back: a corruption error gets
\* its message, the not-found and the database-closed errors come back as
\* they went in, any other error comes back rebuilt from its text.
Normalize(e) ==
    IF e = RawErr1 THEN [kind |-> e.kind, text |-> "m1"]
    ELSE IF e = RawErr2 THEN [kind |-> e.kind, text |-> "m2"]
    ELSE IF e \in {NotFoundErr, ClosedErr} THEN e
    ELSE from_string(to_string(e))

\* errors::is_corruptible: <<is the error corruption, the error handed back>>
is_corruptible(e) ==
    <<e \in {RawErr1, RawErr2}, Normalize(e)>>

CorruptionMessages == {to_string(Normalize(e)) : e \in {RawErr1, RawErr2}}

\* ---- results (io::Result) -------------------------------------------------
Ok(v) == [ok |-> TRUE, val |-> <<v>>, err |-> NoErr]
Err(e) == [ok |-> FALSE, val |-> <<>>, err |-> e]
NoRes == [ok |-> FALSE, val |-> <<>>, err |-> NoErr]
Unit == "()"

\* ---- the handlers ---------------------------------------------------------
ClassifiedOps == {"has", "get", "put", "delete", "close", "health_check"}
IteratorOps == {"new_iterator", "new_iterator_with_start",
                "new_iterator_with_prefix", "new_iterator_with_start_and_prefix"}
Ops == ClassifiedOps \cup IteratorOps

\* the arguments each handler takes
ArgsOf(o) ==
    CASE o \in {"has", "get", "delete"} -> {<<k, 0>> : k \in Keys}
      [] o = "put" -> {<<k, v>> : k \in Keys, v \in Vals}
      [] o \in {"close", "health_check", "new_iterator"} -> {<<0, 0>>}
      [] o = "new_iterator_with_start" -> {<<s, 0>> : s \in Bytes}
      [] o = "new_iterator_with_prefix" -> {<<0, x>> : x \in Bytes}
      [] o = "new_iterator_with_start_and_prefix" -> {<<s, x>> : s \in Bytes, x \in Bytes}

\* a caller is past the gate check and may still classify an inner error
Detecting(p) == pc[p] \in {"inner", "classify", "lock", "write", "store", "reread"}
InFlight(p) == pc[p] \notin {"idle", "done"}

Init ==
    /\ corrupted = FALSE
    /\ corrupted_error = NoMsg
    /\ writer = 0
    /\ db = [k \in Keys |-> 0]
    /\ pc = [p \in Procs |-> "idle"]
    /\ op = [p \in Procs |-> ""]
    /\ arg = [p \in Procs |-> <<0, 0>>]
    /\ err = [p \in Procs |-> NoErr]
    /\ raised = [p \in Procs |-> NoErr]
    /\ res = [p \in Procs |-> NoRes]
    /\ saw = [p \in Procs |-> FALSE]
    /\ path = [p \in Procs |-> ""]
    /\ calls = [p \in Procs |-> 0]
    /\ classified = [p \in Procs |-> 0]
    /\ firstMsg = NoMsg
    /\ seen = {}
    /\ lateCall = FALSE
    /\ settled = [p \in Procs |-> FALSE]
    /\ started = 0
    /\ sequential = FALSE

\* the same decorator with its operations issued one after another
InitSeq ==
    /\ corrupted = FALSE
    /\ corrupted_error = NoMsg
    /\ writer = 0
    /\ db = [k \in Keys |-> 0]
    /\ pc = [p \in Procs |-> "idle"]
    /\ op = [p \in Procs |-> ""]
    /\ arg = [p \in Procs |-> <<0, 0>>]
    /\ err = [p \in Procs |-> NoErr]
    /\ raised = [p \in Procs |-> NoErr]
    /\ res = [p \in Procs |-> NoRes]
    /\ saw = [p \in Procs |-> FALSE]
    /\ path = [p \in Procs |-> ""]
    /\ calls = [p \in Procs |-> 0]
    /\ classified = [p \in Procs |-> 0]
    /\ firstMsg = NoMsg
    /\ seen = {}
    /\ lateCall = FALSE
    /\ settled = [p \in Procs |-> FALSE]
    /\ started = 0
    /\ sequential = TRUE

\* The entry of a handler whose gate check does not branch on the flag.
GateNoCheck(p) ==
    /\ pc[p] \in {"idle", "done"}
    /\ started < MaxOps
    /\ sequential => \A q \in Procs : ~InFlight(q)
    /\ \E o \in Ops : \E a \in ArgsOf(o) :
        /\ op' = [op EXCEPT ![p] = o]
        /\ arg' = [arg EXCEPT ![p] = a]
    /\ pc' = [pc EXCEPT ![p] = "inner"]
    /\ saw' = [saw EXCEPT ![p] = corrupted]
    /\ settled' = [settled EXCEPT ![p] =
                      seen # {} /\ \A q \in Procs : ~Detecting(q)]
    /\ path' = [path EXCEPT ![p] = ""]
    /\ err' = [err EXCEPT ![p] = NoErr]
    /\ raised' = [raised EXCEPT ![p] = NoErr]
    /\ res' = [res EXCEPT ![p] = NoRes]
    /\ calls' = [calls EXCEPT ![p] = 0]
    /\ classified' = [classified EXCEPT ![p] = 0]
    /\ started' = started + 1
    /\ UNCHANGED <<corrupted, corrupted_error, writer, db, firstMsg, seen, lateCall,
                   sequential>>

\* The entry of a handler and its gate check:
\* if self.corrupted.load(Ordering::Relaxed) { return Err(..) }
Gate(p) ==
    /\ pc[p] \in {"idle", "done"}
    /\ started < MaxOps
    /\ sequential => \A q \in Procs : ~InFlight(q)
    /\ \E o \in Ops : \E a \in ArgsOf(o) :
        /\ op' = [op EXCEPT ![p] = o]
        /\ arg' = [arg EXCEPT ![p] = a]
    /\ pc' = [pc EXCEPT ![p] = IF corrupted THEN "gate_read" ELSE "inner"]
    /\ saw' = [saw EXCEPT ![p] = corrupted]
    /\ settled' = [settled EXCEPT ![p] =
                      seen # {} /\ \A q \in Procs : ~Detecting(q)]
    /\ path' = [path EXCEPT ![p] = ""]
    /\ err' = [err EXCEPT ![p] = NoErr]
    /\ raised' = [raised EXCEPT ![p] = NoErr]
    /\ res' = [res EXCEPT ![p] = NoRes]
    /\ calls' = [calls EXCEPT ![p] = 0]
    /\ classified' = [classified EXCEPT ![p] = 0]
    /\ started' = started + 1
    /\ UNCHANGED <<corrupted, corrupted_error, writer, db, firstMsg, seen, lateCall,
                   sequential>>

\* The gate's return that also clears the latch when the handler is close.
GateReadClears(p) ==
    /\ pc[p] = "gate_read"
    /\ writer = 0
    /\ res' = [res EXCEPT ![p] = Err(from_string(corrupted_error))]
    /\ corrupted' = (corrupted /\ op[p] # "close")
    /\ arg' = [arg EXCEPT ![p] = <<0, 0>>]
    /\ path' = [path EXCEPT ![p] = "gate"]
    /\ pc' = [pc EXCEPT ![p] = "done"]
    /\ UNCHANGED <<corrupted_error, writer, db, op, err, raised, saw, calls, classified,
                   firstMsg, seen, lateCall, settled, started, sequential>>

\* return Err(errors::from_string(self.corrupted_error.read().await.to_string()))
\* after the gate check read the flag as true.  The read guard is taken once
\* no caller holds the write guard, and dropped within the statement.
GateRead(p) ==
    /\ pc[p] = "gate_read"
    /\ writer = 0
    /\ res' = [res EXCEPT ![p] = Err(from_string(corrupted_error))]
    /\ arg' = [arg EXCEPT ![p] = <<0, 0>>]
    /\ path' = [path EXCEPT ![p] = "gate"]
    /\ pc' = [pc EXCEPT ![p] = "done"]
    /\ UNCHANGED <<corrupted, corrupted_error, writer, db, op, err, raised, saw, calls,
                   classified, firstMsg, seen, lateCall, settled, started, sequential>>

\* ---- the inner store (any BoxedDatabase; here a map that may fail) ----------
\* what db.get(key) may return
InnerGet(k) ==
    {Err(e) : e \in InnerErrors}
        \cup {IF db[k] = 0 THEN Err(NotFoundErr) ELSE Ok(db[k])}

\* what db.put, db.delete, db.close may return
InnerUnit == {Err(e) : e \in InnerErrors} \cup {Ok(Unit)}

\* what db.health_check may return
InnerHealth == {Err(e) : e \in InnerErrors} \cup {Ok("healthy")}

\* what db.new_iterator_with_start_and_prefix(start, prefix) may return
InnerIterator(s, x) == {Err(e) : e \in InnerErrors} \cup {Ok(<<"iterator", s, x>>)}

\* ---- the match on the inner result -------------------------------------------
\* Each outcome names where the handler goes next, what it returns and the
\* error it keeps in `err`.
Returns(r, how) == [pc |-> "done", res |-> r, path |-> how, err |-> NoErr]
Latches(e) == [pc |-> "lock", res |-> NoRes, path |-> "", err |-> e]

\* has without the not-found arm
HasOutcomeNoTranslate(r) ==
    IF r.ok THEN Returns(Ok(TRUE), "ok")
    ELSE LET c == is_corruptible(r.err) IN
         IF c[1] THEN Latches(c[2])
         ELSE Returns(Err(c[2]), "pass")

\* has with the not-found test ahead of the corruption test
HasOutcomeNotFoundFirst(r) ==
    IF r.ok THEN Returns(Ok(TRUE), "ok")
    ELSE LET c == is_corruptible(r.err) IN
         IF is_not_found(r.err) THEN Returns(Ok(FALSE), "notfound")
         ELSE IF c[1] THEN Latches(c[2])
         ELSE Returns(Err(c[2]), "pass")

\* has: match db.get(key).await { Ok(_) => Ok(true), Err(err) => {..} }
HasOutcome(r) ==
    IF r.ok THEN Returns(Ok(TRUE), "ok")
    ELSE LET c == is_corruptible(r.err) IN
         IF c[1] THEN Latches(c[2])
         ELSE IF is_not_found(c[2]) THEN Returns(Ok(FALSE), "notfound")
         ELSE Returns(Err(c[2]), "pass")

\* the match of the other handlers, with the not-found arm of has
ForwardOutcomeTranslates(r, okv) ==
    IF r.ok THEN Returns(Ok(okv), "ok")
    ELSE LET c == is_corruptible(r.err) IN
         IF c[1] THEN Latches(c[2])
         ELSE IF is_not_found(c[2]) THEN Returns(Ok(FALSE), "notfound")
         ELSE Returns(Err(c[2]), "pass")

\* get, put, delete, close, health_check:
\* match inner { Ok(v) => Ok(v), Err(err) => {..} }
ForwardOutcome(r, okv) ==
    IF r.ok THEN Returns(Ok(okv), "ok")
    ELSE LET c == is_corruptible(r.err) IN
         IF c[1] THEN Latches(c[2])
         ELSE Returns(Err(c[2]), "pass")

\* The end of the inner call that calls the inner store once more after a
\* first error.
AfterInnerRetries(p, r, o, d) ==
    /\ calls' = [calls EXCEPT ![p] = calls[p] + 1]
    /\ lateCall' = (lateCall \/ corrupted)
    /\ db' = IF r.ok THEN d ELSE db
    /\ raised' = [raised EXCEPT ![p] = r.err]
    /\ IF r.ok
       THEN /\ pc' = [pc EXCEPT ![p] = o.pc]
            /\ res' = [res EXCEPT ![p] = o.res]
            /\ path' = [path EXCEPT ![p] = o.path]
            /\ arg' = [arg EXCEPT ![p] = <<0, 0>>]
            /\ UNCHANGED classified
       ELSE IF calls[p] = 0
       THEN UNCHANGED <<pc, res, path, arg, classified>>
       ELSE /\ pc' = [pc EXCEPT ![p] = "classify"]
            /\ classified' = [classified EXCEPT ![p] = classified[p] + 1]
            /\ arg' = [arg EXCEPT ![p] = <<0, 0>>]
            /\ UNCHANGED <<res, path>>
    /\ UNCHANGED <<corrupted, corrupted_error, writer, op, err, saw, firstMsg, seen,
                   settled, started, sequential>>

\* The end of the inner call (its .await): r is what the inner store returned,
\* o the outcome of the match, d the contents of the inner store after a
\* successful call.  The Ok arm returns at once; the Err arm hands the error to
\* errors::is_corruptible and suspends until the classifier answers.
AfterInner(p, r, o, d) ==
    /\ calls' = [calls EXCEPT ![p] = calls[p] + 1]
    /\ lateCall' = (lateCall \/ corrupted)
    /\ arg' = [arg EXCEPT ![p] = <<0, 0>>]
    /\ db' = IF r.ok THEN d ELSE db
    /\ raised' = [raised EXCEPT ![p] = r.err]
    /\ IF r.ok
       THEN /\ pc' = [pc EXCEPT ![p] = o.pc]
            /\ res' = [res EXCEPT ![p] = o.res]
            /\ path' = [path EXCEPT ![p] = o.path]
            /\ UNCHANGED classified
       ELSE /\ pc' = [pc EXCEPT ![p] = "classify"]
            /\ classified' = [classified EXCEPT ![p] = classified[p] + 1]
            /\ UNCHANGED <<res, path>>
    /\ UNCHANGED <<corrupted, corrupted_error, writer, op, err, saw, firstMsg, seen,
                   settled, started, sequential>>

\* let (is_corrupted, err) = errors::is_corruptible(err).await; and the arms
\* that follow it: the classifier answers for the error the inner call
\* returned, and the handler returns or goes on to record the message.
Classify(p) ==
    /\ pc[p] = "classify"
    /\ LET r == Err(raised[p])
           o == IF op[p] = "has" THEN HasOutcome(r) ELSE ForwardOutcome(r, 0)
       IN /\ pc' = [pc EXCEPT ![p] = o.pc]
          /\ res' = [res EXCEPT ![p] = o.res]
          /\ path' = [path EXCEPT ![p] = o.path]
          /\ err' = [err EXCEPT ![p] = o.err]
          /\ seen' = IF o.pc = "lock" THEN seen \cup {to_string(o.err)} ELSE seen
    /\ UNCHANGED <<corrupted, corrupted_error, writer, db, op, arg, raised, saw, calls,
                   classified, firstMsg, lateCall, settled, started, sequential>>

\* has: db.get(key)
HasCall(p) ==
    /\ pc[p] = "inner"
    /\ op[p] = "has"
    /\ \E r \in InnerGet(arg[p][1]) : AfterInner(p, r, HasOutcome(r), db)

\* get: db.get(key)
GetCall(p) ==
    /\ pc[p] = "inner"
    /\ op[p] = "get"
    /\ \E r \in InnerGet(arg[p][1]) :
        AfterInner(p, r, ForwardOutcome(r, IF r.ok THEN r.val[1] ELSE 0), db)

\* put that answers Ok(()) without handing the pair to the inner store
PutCallDrops(p) ==
    /\ pc[p] = "inner"
    /\ op[p] = "put"
    /\ \E r \in InnerUnit : AfterInner(p, r, ForwardOutcome(r, Unit), db)

\* put: db.put(key, value)
PutCall(p) ==
    /\ pc[p] = "inner"
    /\ op[p] = "put"
    /\ \E r \in InnerUnit :
        AfterInner(p, r, ForwardOutcome(r, Unit), [db EXCEPT ![arg[p][1]] = arg[p][2]])

\* delete: db.delete(key)
DeleteCall(p) ==
    /\ pc[p] = "inner"
    /\ op[p] = "delete"
    /\ \E r \in InnerUnit :
        AfterInner(p, r, ForwardOutcome(r, Unit), [db EXCEPT ![arg[p][1]] = 0])

\* close: db.close()
CloseCall(p) ==
    /\ pc[p] = "inner"
    /\ op[p] = "close"
    /\ \E r \in InnerUnit : AfterInner(p, r, ForwardOutcome(r, Unit), db)

\* health_check: db.health_check()
HealthCheckCall(p) ==
    /\ pc[p] = "inner"
    /\ op[p] = "health_check"
    /\ \E r \in InnerHealth :
        AfterInner(p, r, ForwardOutcome(r, IF r.ok THEN r.val[1] ELSE ""), db)

\* forwarders that hand the prefix over as the start
IteratorBoundsSwapped(o, a) ==
    CASE o = "new_iterator" -> <<0, 0>>
      [] o = "new_iterator_with_start" -> <<a[1], 0>>
      [] o = "new_iterator_with_prefix" -> <<a[2], 0>>
      [] OTHER -> a

\* the bounds the three forwarders hand to new_iterator_with_start_and_prefix
IteratorBounds(o, a) ==
    CASE o = "new_iterator" -> <<0, 0>>
      [] o = "new_iterator_with_start" -> <<a[1], 0>>
      [] o = "new_iterator_with_prefix" -> <<0, a[2]>>
      [] OTHER -> a

\* the iterator factories handing an inner error to the classifier
IteratorCallClassifies(p) ==
    /\ pc[p] = "inner"
    /\ op[p] \in IteratorOps
    /\ LET b == IteratorBounds(op[p], arg[p]) IN
       \E r \in InnerIterator(b[1], b[2]) :
        /\ raised' = [raised EXCEPT ![p] = r.err]
        /\ IF r.ok
           THEN /\ res' = [res EXCEPT ![p] = r]
                /\ path' = [path EXCEPT ![p] = "ok"]
                /\ pc' = [pc EXCEPT ![p] = "done"]
                /\ UNCHANGED classified
           ELSE /\ pc' = [pc EXCEPT ![p] = "classify"]
                /\ classified' = [classified EXCEPT ![p] = classified[p] + 1]
                /\ UNCHANGED <<res, path>>
    /\ calls' = [calls EXCEPT ![p] = calls[p] + 1]
    /\ lateCall' = (lateCall \/ corrupted)
    /\ arg' = [arg EXCEPT ![p] = <<0, 0>>]
    /\ UNCHANGED <<corrupted, corrupted_error, writer, db, op, err, saw, firstMsg, seen,
                   settled, started, sequential>>

\* the iterator factories: the result of the inner factory, unclassified
IteratorCall(p) ==
    /\ pc[p] = "inner"
    /\ op[p] \in IteratorOps
    /\ LET b == IteratorBounds(op[p], arg[p]) IN
       \E r \in InnerIterator(b[1], b[2]) :
        /\ res' = [res EXCEPT ![p] = r]
        /\ raised' = [raised EXCEPT ![p] = r.err]
        /\ path' = [path EXCEPT ![p] = IF r.ok THEN "ok" ELSE "pass"]
    /\ calls' = [calls EXCEPT ![p] = calls[p] + 1]
    /\ lateCall' = (lateCall \/ corrupted)
    /\ arg' = [arg EXCEPT ![p] = <<0, 0>>]
    /\ pc' = [pc EXCEPT ![p] = "done"]
    /\ UNCHANGED <<corrupted, corrupted_error, writer, db, op, err, saw, classified,
                   firstMsg, seen, settled, started, sequential>>

\* self.corrupted_error.write().await: the write guard is granted once no
\* caller holds it (read guards are dropped within the statement that takes them)
AcquireWrite(p) ==
    /\ pc[p] = "lock"
    /\ writer = 0
    /\ writer' = p
    /\ pc' = [pc EXCEPT ![p] = "write"]
    /\ UNCHANGED <<corrupted, corrupted_error, db, op, arg, err, raised, res, saw, path,
                   calls, classified, firstMsg, seen, lateCall, settled, started,
                   sequential>>

\* the latch path that stores the flag and leaves the message for later
WriteMessageFlagFirst(p) ==
    /\ pc[p] = "write"
    /\ corrupted' = TRUE
    /\ writer' = 0
    /\ pc' = [pc EXCEPT ![p] = "store"]
    /\ UNCHANGED <<corrupted_error, db, op, arg, err, raised, res, saw, path, calls,
                   classified, firstMsg, seen, lateCall, settled, started, sequential>>

\* the latch path that appends to a message already recorded
WriteMessageAppend(p) ==
    /\ pc[p] = "write"
    /\ corrupted_error' =
          IF corrupted_error = NoMsg THEN to_string(err[p]) ELSE "m1m2"
    /\ firstMsg' = IF firstMsg = NoMsg THEN to_string(err[p]) ELSE firstMsg
    /\ writer' = 0
    /\ pc' = [pc EXCEPT ![p] = "store"]
    /\ UNCHANGED <<corrupted, db, op, arg, err, raised, res, saw, path, calls,
                   classified, seen, lateCall, settled, started, sequential>>

\* the assignment with the write guard kept alive past the statement
WriteMessageKeepsGuard(p) ==
    /\ pc[p] = "write"
    /\ corrupted_error' = to_string(err[p])
    /\ firstMsg' = IF firstMsg = NoMsg THEN to_string(err[p]) ELSE firstMsg
    /\ pc' = [pc EXCEPT ![p] = "store"]
    /\ UNCHANGED <<corrupted, writer, db, op, arg, err, raised, res, saw, path, calls,
                   classified, seen, lateCall, settled, started, sequential>>

\* *self.corrupted_error.write().await = err.to_string();
\* the assignment, and the drop of the write guard at the end of the statement
WriteMessage(p) ==
    /\ pc[p] = "write"
    /\ corrupted_error' = to_string(err[p])
    /\ firstMsg' = IF firstMsg = NoMsg THEN to_string(err[p]) ELSE firstMsg
    /\ writer' = 0
    /\ pc' = [pc EXCEPT ![p] = "store"]
    /\ UNCHANGED <<corrupted, db, op, arg, err, raised, res, saw, path, calls,
                   classified, seen, lateCall, settled, started, sequential>>

\* self.corrupted.store(true, Ordering::Relaxed);
StoreFlag(p) ==
    /\ pc[p] = "store"
    /\ corrupted' = TRUE
    /\ pc' = [pc EXCEPT ![p] = "reread"]
    /\ UNCHANGED <<corrupted_error, writer, db, op, arg, err, raised, res, saw, path,
                   calls, classified, firstMsg, seen, lateCall, settled, started,
                   sequential>>

\* return Err(errors::from_string(self.corrupted_error.read().await.to_string()));
Reread(p) ==
    /\ pc[p] = "reread"
    /\ writer = 0
    /\ res' = [res EXCEPT ![p] = Err(from_string(corrupted_error))]
    /\ path' = [path EXCEPT ![p] = "latch"]
    /\ pc' = [pc EXCEPT ![p] = "done"]
    /\ UNCHANGED <<corrupted, corrupted_error, writer, db, op, arg, err, raised, saw,
                   calls, classified, firstMsg, seen, lateCall, settled, started,
                   sequential>>

Next ==
    \E p \in Procs :
        \/ Gate(p)
        \/ GateRead(p)
        \/ HasCall(p)
        \/ GetCall(p)
        \/ PutCall(p)
        \/ DeleteCall(p)
        \/ CloseCall(p)
        \/ HealthCheckCall(p)
        \/ IteratorCall(p)
        \/ Classify(p)
        \/ AcquireWrite(p)
        \/ WriteMessage(p)
        \/ StoreFlag(p)
        \/ Reread(p)

\* a drop of the future that treats the abandoned call as a sign of corruption
CancelLatches(p) ==
    /\ pc[p] \in {"gate_read", "inner", "classify", "lock", "reread"}
    /\ corrupted' = TRUE
    /\ pc' = [pc EXCEPT ![p] = "idle"]
    /\ op' = [op EXCEPT ![p] = ""]
    /\ arg' = [arg EXCEPT ![p] = <<0, 0>>]
    /\ err' = [err EXCEPT ![p] = NoErr]
    /\ raised' = [raised EXCEPT ![p] = NoErr]
    /\ res' = [res EXCEPT ![p] = NoRes]
    /\ saw' = [saw EXCEPT ![p] = FALSE]
    /\ path' = [path EXCEPT ![p] = ""]
    /\ calls' = [calls EXCEPT ![p] = 0]
    /\ classified' = [classified EXCEPT ![p] = 0]
    /\ settled' = [settled EXCEPT ![p] = FALSE]
    /\ UNCHANGED <<corrupted_error, writer, db, firstMsg, seen, lateCall, started,
                   sequential>>

\* The caller drops the future of its call.  A future is dropped only while it
\* is suspended at an .await: on the read guard, in the inner call (or the
\* classifier) or on the write guard; from the grant of the write guard to the
\* store of the flag the handler does not suspend.  The locals of the call are
\* gone and none of its later statements runs.
Cancel(p) ==
    /\ pc[p] \in {"gate_read", "inner", "classify", "lock", "reread"}
    /\ pc' = [pc EXCEPT ![p] = "idle"]
    /\ op' = [op EXCEPT ![p] = ""]
    /\ arg' = [arg EXCEPT ![p] = <<0, 0>>]
    /\ err' = [err EXCEPT ![p] = NoErr]
    /\ raised' = [raised EXCEPT ![p] = NoErr]
    /\ res' = [res EXCEPT ![p] = NoRes]
    /\ saw' = [saw EXCEPT ![p] = FALSE]
    /\ path' = [path EXCEPT ![p] = ""]
    /\ calls' = [calls EXCEPT ![p] = 0]
    /\ classified' = [classified EXCEPT ![p] = 0]
    /\ settled' = [settled EXCEPT ![p] = FALSE]
    /\ UNCHANGED <<corrupted, corrupted_error, writer, db, firstMsg, seen, lateCall,
                   started, sequential>>

NextCancel ==
    \/ Next
    \/ \E p \in Procs : Cancel(p)

Spec == Init /\ [][Next]_vars

\* The inner call and the classifier of a started call return.
InnerStep(p) ==
    \/ HasCall(p)
    \/ GetCall(p)
    \/ PutCall(p)
    \/ DeleteCall(p)
    \/ CloseCall(p)
    \/ HealthCheckCall(p)
    \/ IteratorCall(p)
    \/ Classify(p)

\* The statements of a handler that run without waiting for the lock.
LocalStep(p) ==
    \/ WriteMessage(p)
    \/ StoreFlag(p)

\* The acquisitions of corrupted_error: read() at the gate and after the
\* store of the flag, write() before the assignment.
LockStep(p) ==
    \/ GateRead(p)
    \/ AcquireWrite(p)
    \/ Reread(p)

\* The runtime polls every started call, the inner call and the classifier
\* return, and tokio's RwLock grants its guards in the order of the requests.
Fairness ==
    \A p \in Procs :
        /\ WF_vars(InnerStep(p))
        /\ WF_vars(LocalStep(p))
        /\ SF_vars(LockStep(p))

SpecFair == Init /\ [][Next]_vars /\ Fairness

\* the decorator with callers that may abandon a call
SpecCancel == Init /\ [][NextCancel]_vars

SpecSeq == InitSeq /\ [][Next]_vars

\* ---- properties ------------------------------------------------------------
\* no caller is between its gate check and the end of its latch path
Quiet == \A q \in Procs : ~Detecting(q)
\* the failure every operation returns once corrupted
Latched(m) == Err(from_string(m))
\* caller p returns in this step
ReturnsNow(p) == pc[p] # "done" /\ pc'[p] = "done"
\* the match on the inner result of caller p ends in this step: the Ok arm
\* when the inner call returns, the Err arm when the classifier has answered
MatchEnds(p) == pc[p] \in {"inner", "classify"} /\ pc'[p] \in {"lock", "done"}
LatchUnchanged == corrupted' = corrupted /\ corrupted_error' = corrupted_error

\* C1: with operations issued one after another, once an operation has
\* received an inner error classified as corruption, every later operation
\* fails with the message the first detection recorded and makes no inner call.
C1_LatchPermanence ==
    /\ ~lateCall
    /\ \A p \in Procs :
        (settled[p] /\ pc[p] = "done") =>
            /\ res[p] = Latched(firstMsg)
            /\ firstMsg \in CorruptionMessages
            /\ calls[p] = 0

C1_Witness ==
    /\ sequential
    /\ firstMsg = "m1"
    /\ pc[1] = "done" /\ settled[1] /\ op[1] = "has"
    /\ pc[2] = "done" /\ settled[2] /\ op[2] = "new_iterator"

\* C2: the corruption flag is a one-way latch: no step takes it from true to
\* false.
C2_FlagOneWay == [][corrupted => corrupted']_vars

C2_Witness ==
    /\ corrupted
    /\ \E p \in Procs : op[p] = "close" /\ pc[p] = "done" /\ path[p] = "gate"
    /\ \E p \in Procs : op[p] = "close" /\ pc[p] = "done" /\ path[p] = "latch"

\* C3: the message slot is assigned at most once: once it holds a message,
\* no step changes it.
C3_WriteOnce == [][corrupted_error # NoMsg => corrupted_error' = corrupted_error]_vars

\* C4: a caller whose gate check read the flag as true never reads an empty
\* message: whenever the flag is true the slot holds a non-empty recorded
\* message.
C4_NoPartialVisibility ==
    /\ corrupted => corrupted_error \in CorruptionMessages
    /\ \A p \in Procs :
        (saw[p] /\ pc[p] = "done") =>
            /\ ~res[p].ok
            /\ to_string(res[p].err) \in CorruptionMessages

C4_Witness ==
    \E p, q \in Procs :
        /\ saw[p] /\ pc[p] = "done"
        /\ pc[q] = "write"
        /\ to_string(err[q]) # corrupted_error

\* C5: every CorruptionLatched failure of the decorator carries the message of
\* the first detection, whether a gate check or a detecting operation returned it.
C5_SameMessage ==
    \A p \in Procs :
        (pc[p] = "done" /\ path[p] \in {"gate", "latch"}) =>
            res[p] = Latched(firstMsg)

\* C6: once the racing detections have all returned, the stored message is one
\* of the messages they classified, it no longer changes, and every call
\* started afterwards fails with it.
C6_RaceConverges ==
    /\ [](Quiet /\ seen # {} =>
            /\ corrupted
            /\ corrupted_error \in seen
            /\ \A p \in Procs :
                (settled[p] /\ pc[p] = "done") => res[p] = Latched(corrupted_error))
    /\ [][Quiet /\ seen # {} => corrupted_error' = corrupted_error]_vars

C6_Witness ==
    /\ seen = {"m1", "m2"}
    /\ Quiet
    /\ \E p, q \in Procs :
        /\ pc[p] = "done" /\ settled[p] /\ res[p] = Latched(corrupted_error)
        /\ pc[q] = "done" /\ op[q] = "get" /\ path[q] = "latch"

\* C7 as stated: the inner store is never invoked while the flag is true.
C7_NoCallOnceLatched == ~lateCall

\* C7 as amended: an operation whose gate check read the flag as true makes
\* no call to the inner store.
C7_NoCallAfterGate ==
    \A p \in Procs : saw[p] => (calls[p] = 0 /\ pc[p] \in {"gate_read", "done"})

C7_Witness ==
    /\ lateCall
    /\ \E p \in Procs : saw[p] /\ pc[p] = "done" /\ op[p] = "put"

\* C8 as stated: has answers Ok(false) to a not-found inner error while healthy
\* and leaves the latch alone, and never returns Ok(false) while corrupted.
C8_HasFalseOnlyHealthy ==
    [][\A p \in Procs :
        /\ (op[p] = "has" /\ MatchEnds(p) /\ ~corrupted
                /\ is_not_found(raised'[p]) /\ ~is_corruptible(raised'[p])[1]) =>
              (res'[p] = Ok(FALSE) /\ pc'[p] = "done" /\ LatchUnchanged)
        /\ (op[p] = "has" /\ ReturnsNow(p) /\ corrupted) => res'[p] # Ok(FALSE)
      ]_vars

\* C8 as amended: has answers Ok(false) to a not-found inner error and leaves
\* the latch alone, and never returns Ok(false) when its own gate check read
\* the flag as true.
C8_HasFalseUnlessGated ==
    [][\A p \in Procs :
        /\ (op[p] = "has" /\ MatchEnds(p) /\ is_not_found(raised'[p])
                /\ ~is_corruptible(raised'[p])[1]) =>
              (res'[p] = Ok(FALSE) /\ pc'[p] = "done" /\ LatchUnchanged)
        /\ (op[p] = "has" /\ ReturnsNow(p) /\ saw[p]) => res'[p] # Ok(FALSE)
      ]_vars

C8_Witness ==
    /\ corrupted
    /\ \E p, q \in Procs :
        /\ op[p] = "has" /\ pc[p] = "done" /\ res[p] = Ok(FALSE)
        /\ op[q] = "has" /\ pc[q] = "done" /\ saw[q]

\* C9: an inner error that is neither corruption nor not-found is returned as
\* the inner store raised it, not as the classifier handed it back, and the
\* flag and the message stay as they were.
C9_PassThrough ==
    [][\A p \in Procs :
        (op[p] \in ClassifiedOps /\ MatchEnds(p) /\ raised'[p] # NoErr
            /\ ~is_corruptible(raised'[p])[1] /\ ~is_not_found(raised'[p])) =>
              (pc'[p] = "done" /\ res'[p] = Err(raised'[p]) /\ LatchUnchanged)
      ]_vars

\* C10: get, put, delete, close and health_check return a not-found inner
\* error as a failure, and the flag and the message stay as they were.
C10_NotFoundPropagates ==
    [][\A p \in Procs :
        (op[p] \in ClassifiedOps \ {"has"} /\ MatchEnds(p) /\ ~corrupted
            /\ is_not_found(raised'[p]) /\ ~is_corruptible(raised'[p])[1]) =>
              (pc'[p] = "done" /\ res'[p] = Err(raised'[p]) /\ LatchUnchanged)
      ]_vars

C10_Witness ==
    /\ ~corrupted
    /\ pc[1] = "done" /\ op[1] = "put" /\ res[1] = Err(NotFoundErr)
    /\ pc[2] = "done" /\ op[2] = "health_check" /\ res[2] = Err(NotFoundErr)

\* C11: an iterator factory never triggers the latch: on a healthy decorator
\* new_iterator_with_start_and_prefix returns what the inner factory returned,
\* also an error the classifier would classify as corruption, and leaves the
\* flag and the message alone; on a corrupted decorator it fails with
\* CorruptionLatched without calling the inner factory.
C11_FactoryNeverLatches ==
    /\ [][\A p \in Procs :
            (op[p] = "new_iterator_with_start_and_prefix" /\ MatchEnds(p)) =>
                /\ pc'[p] = "done"
                /\ res'[p] = IF raised'[p] = NoErr
                             THEN Ok(<<"iterator", arg[p][1], arg[p][2]>>)
                             ELSE Err(raised'[p])
                /\ LatchUnchanged
                /\ seen' = seen
                /\ classified'[p] = 0
         ]_vars
    /\ [](\A p \in Procs :
            (op[p] = "new_iterator_with_start_and_prefix" /\ saw[p] /\ pc[p] = "done") =>
                /\ res[p] \in {Latched(m) : m \in seen}
                /\ calls[p] = 0)

C11_Witness ==
    /\ op[1] = "new_iterator_with_start_and_prefix" /\ pc[1] = "done"
    /\ res[1] = Err(RawErr1) /\ ~saw[1]
    /\ op[2] = "new_iterator_with_start_and_prefix" /\ pc[2] = "done"
    /\ saw[2] /\ corrupted_error = "m2"

\* C12: the handles made by Clone share one latch: once an operation through
\* one handle has latched with message m, every operation started afterwards
\* through the other handle fails with CorruptionLatched(m).  Each caller of
\* the model works through its own clone; the clones hold the same Arc of the
\* flag and of the message.
C12_ClonesShareLatch ==
    \A p, q \in Procs :
        (p # q /\ pc[p] = "done" /\ path[p] = "latch"
            /\ pc[q] = "done" /\ settled[q]) =>
                res[q] = Latched(to_string(err[p]))

\* C13: the transition to corrupted is one atomic step: in no state does the
\* slot hold a corruption message while the flag is still false, and the flag
\* and the message change only in steps of the caller holding the write guard.
C13_AtomicTransition ==
    /\ [](corrupted_error # NoMsg => corrupted)
    /\ [][(corrupted' # corrupted \/ corrupted_error' # corrupted_error) =>
            (writer # 0 /\ pc'[writer] # pc[writer])]_vars

\* C14: an operation whose gate check saw the decorator corrupted returns
\* before any classification: it calls neither the inner store nor the
\* classifier, and its steps leave the flag, the message and the set of
\* classified messages as they were.
C14_NoReclassification ==
    /\ [](\A p \in Procs : saw[p] => (classified[p] = 0 /\ calls[p] = 0))
    /\ [][\A p \in Procs :
            (saw[p] /\ pc'[p] # pc[p]) => (LatchUnchanged /\ seen' = seen)]_vars

C14_Witness ==
    \E p \in Procs :
        /\ saw[p] /\ pc[p] = "done" /\ op[p] = "delete"
        /\ corrupted_error = "m1" /\ res[p] = Latched("m1")

\* C15: while the decorator is healthy and the inner operation succeeds, the
\* handler returns the inner result and has the inner store's effect (put
\* stores the value that a later get returns), has answers true exactly when
\* the inner get succeeded, and the flag and the message stay as they were.
C15_Transparent ==
    [][\A p \in Procs :
        /\ (op[p] \in ClassifiedOps /\ MatchEnds(p) /\ raised'[p] = NoErr) =>
            /\ pc'[p] = "done"
            /\ LatchUnchanged
            /\ CASE op[p] = "has" -> res'[p] = Ok(TRUE) /\ db' = db
                 [] op[p] = "get" -> res'[p] = Ok(db[arg[p][1]]) /\ db' = db
                 [] op[p] = "put" ->
                        /\ res'[p] = Ok(Unit)
                        /\ db' = [db EXCEPT ![arg[p][1]] = arg[p][2]]
                 [] op[p] = "delete" ->
                        /\ res'[p] = Ok(Unit)
                        /\ db' = [db EXCEPT ![arg[p][1]] = 0]
                 [] op[p] = "close" -> res'[p] = Ok(Unit) /\ db' = db
                 [] op[p] = "health_check" -> res'[p] = Ok("healthy") /\ db' = db
        /\ (op[p] = "has" /\ ReturnsNow(p) /\ res'[p] = Ok(TRUE)) =>
            (MatchEnds(p) /\ raised'[p] = NoErr)
      ]_vars

C15_Witness ==
    /\ ~corrupted /\ corrupted_error = NoMsg
    /\ \E k \in Keys :
        /\ db[k] = 1
        /\ op[1] = "get" /\ pc[1] = "done" /\ res[1] = Ok(1)
        /\ op[2] = "has" /\ pc[2] = "done" /\ res[2] = Ok(TRUE)
    /\ started = 3

\* C16: new_iterator() behaves as new_iterator_with_start_and_prefix(&[], &[]),
\* new_iterator_with_start(start) as (start, &[]) and
\* new_iterator_with_prefix(prefix) as (&[], prefix): the forwarder returns a
\* result of the inner factory called with those bounds, changes nothing, and
\* on a corrupted decorator fails from the gate without an inner call.
C16_Forwarders ==
    /\ [][\A p \in Procs :
            (op[p] \in IteratorOps /\ MatchEnds(p)) =>
                LET e == CASE op[p] = "new_iterator" -> <<0, 0>>
                           [] op[p] = "new_iterator_with_start" -> <<arg[p][1], 0>>
                           [] op[p] = "new_iterator_with_prefix" -> <<0, arg[p][2]>>
                           [] OTHER -> arg[p]
                IN  /\ pc'[p] = "done"
                    /\ res'[p] \in InnerIterator(e[1], e[2])
                    /\ calls'[p] = 1
                    /\ LatchUnchanged
                    /\ db' = db
         ]_vars
    /\ [](\A p \in Procs :
            (op[p] \in IteratorOps /\ saw[p] /\ pc[p] = "done") =>
                (res[p] \in {Latched(m) : m \in seen} /\ calls[p] = 0))

C16_Witness ==
    /\ op[1] = "new_iterator_with_prefix" /\ pc[1] = "done"
    /\ res[1] = Ok(<<"iterator", 0, 1>>)
    /\ op[2] = "new_iterator_with_start" /\ pc[2] = "done"
    /\ res[2] = Ok(<<"iterator", 1, 0>>)

\* C17: no operation retries: an invocation calls the inner store at most
\* once, exactly once when its gate check saw the decorator healthy and not at
\* all when it saw it corrupted, whatever the inner call returned.
C17_NoRetry ==
    \A p \in Procs :
        /\ calls[p] <= 1
        /\ pc[p] \in {"classify", "lock", "write", "store", "reread"} => calls[p] = 1
        /\ pc[p] = "done" => calls[p] = (IF saw[p] THEN 0 ELSE 1)

C17_Witness ==
    /\ pc[1] = "done" /\ op[1] = "health_check" /\ res[1] = Err(ClosedErr)
    /\ calls[1] = 1
    /\ pc[2] = "done" /\ op[2] = "health_check" /\ saw[2] /\ calls[2] = 0

\* C18: a call abandoned while suspended in the inner call or on the message
\* lock is not taken for a sign of corruption: the drop changes neither the
\* flag nor the message, the message is still written only by a caller that
\* classified an error as corruption and went on to its write, and the flag
\* is never set over an empty message.
C18_CancelIsNotCorruption ==
    /\ [][\A p \in Procs :
            (InFlight(p) /\ pc'[p] = "idle") => LatchUnchanged]_vars
    /\ [][corrupted_error' # corrupted_error =>
            \E p \in Procs : pc[p] = "write" /\ corrupted_error' = to_string(err[p])]_vars
    /\ [](corrupted => corrupted_error \in seen)

C18_Witness ==
    /\ \A p \in Procs : pc[p] = "idle"
    /\ started = 2
    /\ seen = {"m1", "m2"}
    /\ ~corrupted
    /\ corrupted_error = NoMsg

\* C19: with the inner call and the classifier returning and the lock granted
\* fairly, every started operation returns; the write guard of the message is
\* held only for the assignment, never during the inner call, the classifier
\* or the later read of the message by the same operation.
C19_EveryCallReturns ==
    /\ \A p \in Procs : InFlight(p) ~> (pc[p] = "done")
    /\ [](writer # 0 => pc[writer] = "write")
    /\ [](\A p \in Procs : pc[p] = "write" => writer = p)

C19_Witness ==
    /\ pc[1] = "done" /\ path[1] = "latch"
    /\ pc[2] = "done" /\ path[2] = "latch"
    /\ started = 3
    /\ writer = 0

\* C20: in has the corruption test comes before the not-found translation: an
\* inner error classified as corruption sends has to the latch, with the
\* classifier's error as the message to record, also when the error is a
\* not-found error, and has then fails with a latched message; has answers
\* false only for an error that is not classified as corruption and whose
\* value as returned by the classifier is a not-found error.
C20_CorruptionBeforeNotFound ==
    /\ [][\A p \in Procs :
            (op[p] = "has" /\ MatchEnds(p)) =>
                /\ is_corruptible(raised'[p])[1] =>
                      /\ pc'[p] = "lock"
                      /\ err'[p] = is_corruptible(raised'[p])[2]
                      /\ res'[p] = NoRes
                /\ res'[p] = Ok(FALSE) =>
                      /\ raised'[p] # NoErr
                      /\ ~is_corruptible(raised'[p])[1]
                      /\ is_not_found(is_corruptible(raised'[p])[2])
          ]_vars
    /\ [](\A p \in Procs :
            (op[p] = "has" /\ pc[p] = "done" /\ ~saw[p]
                /\ is_corruptible(raised[p])[1]) =>
                    (path[p] = "latch" /\ res[p] \in {Latched(m) : m \in seen}))

C20_Witness ==
    /\ op[1] = "has" /\ pc[1] = "done" /\ path[1] = "latch"
    /\ raised[1] = RawErr2 /\ is_not_found(RawErr2)
    /\ res[1] = Latched("m2")
    /\ op[2] = "has" /\ pc[2] = "done" /\ res[2] = Ok(FALSE)
    /\ raised[2] = NotFoundErr

====
